---- MODULE Spec2Model ----
(***************************************************************************)
(* Gesture-driven interaction controller of the Celestial Christmas Tree.  *)
(*                                                                         *)
(*   video frame -> landmarks -> features -> raw label -> stabilizer       *)
(*     -> gesture-change event -> (appState, interactionMode)              *)
(*     -> selection effect -> activeItemId -> per-item render tick         *)
(*                                                                         *)
(* Sources: src/components/GestureUI.tsx (GestureUI), src/App.tsx (App),   *)
(* src/components/Decorations.tsx (InteractiveItems, Item).                *)
(***************************************************************************)
EXTENDS Integers, Sequences, FiniteSets, TLC

VARIABLES
    appState,               \* App.tsx:17          useState(AppState.TREE_SHAPE)
    interactionMode,        \* App.tsx:18          useState(InteractionMode.IDLE)
    gestureHistory,         \* GestureUI.tsx:52    gestureHistoryRef.current
    currentStableGesture,   \* GestureUI.tsx:53    currentStableGestureRef.current
    showGiftModal,          \* GestureUI.tsx:45    useState(false)
    activeItemId,           \* Decorations.tsx:906 useState(null)
    historyRef,             \* Decorations.tsx:910 historyRef.current
    loopRunning,            \* GestureUI.tsx:97    a detect callback is scheduled
    mounted,                \* GestureUI.tsx:58    the component is mounted (no cleanup yet)
    handLandmarker,         \* GestureUI.tsx:49    handLandmarkerRef.current
    camera,                 \* Decorations.tsx:584 state.camera (position, quaternion)
    itemData,               \* Decorations.tsx:560 the data prop of the Item observed
    currentPos,             \* Decorations.tsx:566 currentPos.current of that Item
    shown,                  \* per category, the identifiers selected most recently
    emitted,                \* label of the event the last processResults call emitted, or NoEvent
    runLabel,               \* raw label of the last processed frame
    runLen,                 \* how many consecutive frames ended with runLabel (capped)
    sinceEvent,             \* frames processed since the last camera event (capped)
    results,                \* GestureUI.tsx:100   the results processResults was called with
    detectedGesture         \* GestureUI.tsx:104   the label of the classifier specification

vars == <<appState, interactionMode, gestureHistory, currentStableGesture,
          showGiftModal, activeItemId, historyRef, loopRunning,
          mounted, handLandmarker, sinceEvent,
          camera, itemData, currentPos, shown,
          emitted, runLabel, runLen, results, detectedGesture>>

stabVars == <<gestureHistory, currentStableGesture, emitted, runLabel, runLen,
              sinceEvent>>
selVars  == <<activeItemId, historyRef, shown>>
pureVars == <<results, detectedGesture>>
itemVars == <<camera, itemData, currentPos>>
lifeVars == <<mounted, handLandmarker>>

-----------------------------------------------------------------------------
(* Program constants.  Distances are in hundredths of the normalised image *)
(* unit, so 0.08 is 8, 0.2 is 20 and the multiplier 1.2 is 12/10.          *)

PINCH_DISTANCE_THRESHOLD == 8
THUMB_EXTENDED_DISTANCE_THRESHOLD == 20
FINGER_EXTENSION_MULTIPLIER_TENTHS == 12

(* Scaled down to keep the state space finite and small: the window of the *)
(* stabilizer (5 in GestureUI.tsx:17) and the pools (30 gifts and 15       *)
(* frames in Decorations.tsx:384-385).                                     *)
GESTURE_CONFIDENCE_THRESHOLD == 3
GIFTS_COUNT == 4
FRAMES_COUNT == 2

(* The run counter stops counting RunSlack frames after the threshold.     *)
RunSlack == 1
RunCap == GESTURE_CONFIDENCE_THRESHOLD + RunSlack

GestureLabels == {"NONE", "FIST", "PINCH", "POINT", "OPEN", "NEUTRAL"}
UNKNOWN == "UNKNOWN"
NoEvent == "-"
AppStates == {"SCATTERED", "TREE_SHAPE"}
InteractionModes == {"IDLE", "PULLING_FRAME", "PULLING_GIFT"}

-----------------------------------------------------------------------------
(* Landmark input.  A hand is given by the number of landmark points the   *)
(* detector returned for it and by the ten distances processResults        *)
(* measures: dAB is dist(A, B) between landmarks A and B.                  *)

(* The highest landmark index processResults reads: isExtended(20, 17).    *)
PINKY_TIP == 20

(* The detector's contract: 21 points, indices 0 to PINKY_TIP.             *)
Hands ==
    [points : {PINKY_TIP + 1},
     d4_17 : {20, 21},
     d8_0  : {12, 13},  d5_0  : {10},
     d12_0 : {12, 13},  d9_0  : {10},
     d16_0 : {12, 13},  d13_0 : {10},
     d20_0 : {12, 13},  d17_0 : {10},
     d4_8  : {7, 8}]

(* results.landmarks: no hand, or one hand (numHands: 1).                  *)
NoHand == [landmarks |-> << >>]
Results == {NoHand} \cup {[landmarks |-> <<h>>] : h \in Hands}

isExtended(tipDist, mcpDist) ==
    tipDist * 10 > mcpDist * FINGER_EXTENSION_MULTIPLIER_TENTHS

features(h) ==
    LET thumbExtended  == h.d4_17 > THUMB_EXTENDED_DISTANCE_THRESHOLD
        indexExtended  == isExtended(h.d8_0, h.d5_0)
        middleExtended == isExtended(h.d12_0, h.d9_0)
        ringExtended   == isExtended(h.d16_0, h.d13_0)
        pinkyExtended  == isExtended(h.d20_0, h.d17_0)
        flags == <<thumbExtended, indexExtended, middleExtended,
                   ringExtended, pinkyExtended>>
    IN  [thumbExtended  |-> thumbExtended,
         indexExtended  |-> indexExtended,
         middleExtended |-> middleExtended,
         ringExtended   |-> ringExtended,
         pinkyExtended  |-> pinkyExtended,
         extendedCount  |-> Cardinality({i \in 1..5 : flags[i]}),
         pinchDistance  |-> h.d4_8,
         isPinching     |-> h.d4_8 < PINCH_DISTANCE_THRESHOLD]

(* landmarks[i] is undefined for an index past the end of the array, and   *)
(* dist reads .x of it: processResults throws a TypeError on a hand with   *)
(* fewer points than it reads.  Points past index PINKY_TIP are never read.*)
throws(r) ==
    /\ Len(r.landmarks) > 0
    /\ r.landmarks[1].points <= PINKY_TIP

(* A plausible slip: the coarse fist count tested ahead of the pinch.      *)
classify_fistFirst(f) ==
    IF f.extendedCount <= 1 THEN "FIST"
    ELSE IF f.isPinching THEN "PINCH"
    ELSE IF f.indexExtended /\ ~f.middleExtended /\ ~f.ringExtended
            /\ ~f.pinkyExtended THEN "POINT"
    ELSE IF f.extendedCount >= 4 THEN "OPEN"
    ELSE "NEUTRAL"

classify(f) ==
    IF f.isPinching THEN "PINCH"
    ELSE IF f.indexExtended /\ ~f.middleExtended /\ ~f.ringExtended
            /\ ~f.pinkyExtended THEN "POINT"
    ELSE IF f.extendedCount <= 1 THEN "FIST"
    ELSE IF f.extendedCount >= 4 THEN "OPEN"
    ELSE "NEUTRAL"

(* A plausible slip: the hand test dropped, so an empty result is read as  *)
(* a closed hand.                                                          *)
detectGesture_noHandAsFist(r) ==
    IF Len(r.landmarks) > 0 THEN classify(features(r.landmarks[1])) ELSE "FIST"

(* let detectedGesture = "NONE"; if (results.landmarks.length > 0) ...     *)
detectGesture(r) ==
    IF Len(r.landmarks) > 0 THEN classify(features(r.landmarks[1])) ELSE "NONE"

-----------------------------------------------------------------------------
(* Temporal stabilizer.                                                    *)

pushHistory(history, g) ==
    LET pushed == Append(history, g)
    IN  IF Len(pushed) > GESTURE_CONFIDENCE_THRESHOLD THEN Tail(pushed) ELSE pushed

(* A plausible slip: unanimity tested without the full-window test.        *)
allMatch_anyLength(history, g) ==
    \A i \in 1..Len(history) : history[i] = g

(* A plausible slip: the oldest entry of the window left out of the test.  *)
allMatch_offByOne(history, g) ==
    /\ Len(history) = GESTURE_CONFIDENCE_THRESHOLD
    /\ \A i \in 2..Len(history) : history[i] = g

(* A plausible slip: only the ends of the window compared.                 *)
allMatch_endsOnly(history, g) ==
    /\ Len(history) = GESTURE_CONFIDENCE_THRESHOLD
    /\ history[1] = g
    /\ history[Len(history)] = g

allMatch(history, g) ==
    /\ Len(history) = GESTURE_CONFIDENCE_THRESHOLD
    /\ \A i \in 1..Len(history) : history[i] = g

(* A plausible slip: the comparison with the confirmed label dropped.      *)
confirms_always(history, g, stable) == allMatch(history, g)

confirms(history, g, stable) == allMatch(history, g) /\ g # stable

-----------------------------------------------------------------------------
(* Interaction state machine.                                              *)

(* A plausible slip: the two pulling modes swapped.                        *)
effectMode_swapped(gesture) ==
    CASE gesture = "PINCH" -> "PULLING_GIFT"
      [] gesture = "POINT" -> "PULLING_FRAME"
      [] gesture = "FIST"  -> "IDLE"
      [] gesture = "OPEN"  -> "IDLE"
      [] OTHER             -> "IDLE"

effectMode(gesture) ==
    CASE gesture = "PINCH" -> "PULLING_FRAME"
      [] gesture = "POINT" -> "PULLING_GIFT"
      [] gesture = "FIST"  -> "IDLE"
      [] gesture = "OPEN"  -> "IDLE"
      [] OTHER             -> "IDLE"

(* A plausible slip: a pinch also scatters the scene.                      *)
effectAppState_pinchScatters(gesture, current) ==
    CASE gesture = "FIST"  -> "TREE_SHAPE"
      [] gesture = "OPEN"  -> "SCATTERED"
      [] gesture = "PINCH" -> "SCATTERED"
      [] OTHER             -> current

effectAppState(gesture, current) ==
    CASE gesture = "FIST" -> "TREE_SHAPE"
      [] gesture = "OPEN" -> "SCATTERED"
      [] OTHER            -> current

(* A plausible slip: the default branch of the switch missing, so that the *)
(* labels without a case leave the mode alone.                             *)
applyGestureEffect_keepsMode(gesture) ==
    /\ interactionMode' = IF gesture \in {"PINCH", "POINT", "FIST", "OPEN"}
                          THEN effectMode(gesture) ELSE interactionMode
    /\ appState' = effectAppState(gesture, appState)

applyGestureEffect(gesture) ==
    /\ interactionMode' = effectMode(gesture)
    /\ appState' = effectAppState(gesture, appState)

(* The detection loop is started once, by the mount effect (useEffect with *)
(* an empty dependency list), so the detect and processResults it runs are *)
(* the closures of the first render: the showGiftModal they read is the    *)
(* initial useState(false) value, whatever the modal does later.           *)
showGiftModalSeenByLoop == FALSE

(* sinceEvent where the frames between events are not counted.            *)
NotCounted == -1

Min(a, b) == IF a < b THEN a ELSE b
Max(a, b) == IF a > b THEN a ELSE b

(* One call of processResults, returning normally, on the detection result *)
(* r of a new frame.                                                       *)
processResults(r) ==
    IF showGiftModalSeenByLoop
    THEN UNCHANGED vars
    ELSE LET g == detectGesture(r)
             history == pushHistory(gestureHistory, g)
         IN  /\ gestureHistory' = history
             /\ IF confirms(history, g, currentStableGesture)
                THEN /\ currentStableGesture' = g
                     /\ applyGestureEffect(g)
                     /\ emitted' = g
                     /\ sinceEvent' = IF sinceEvent = NotCounted THEN NotCounted ELSE 0
                ELSE /\ UNCHANGED <<currentStableGesture, appState, interactionMode>>
                     /\ emitted' = NoEvent
                     /\ sinceEvent' = IF sinceEvent = NotCounted THEN NotCounted
                                      ELSE Min(sinceEvent + 1, RunCap)
             /\ runLabel' = g
             /\ runLen' = IF g = runLabel THEN Min(runLen + 1, RunCap) ELSE 1
             /\ results' = r
             /\ UNCHANGED <<showGiftModal, selVars, detectedGesture, itemVars,
                            loopRunning, lifeVars>>

(* One run of the detect callback on a new video frame: processResults,    *)
(* then requestAnimationFrame(detect).  detect has no try/catch, so an      *)
(* exception of processResults leaves it before the next callback is       *)
(* scheduled and the loop is over.  After the unmount webcamRef.current is  *)
(* null: detect processes nothing and schedules itself again.              *)
detect(r) ==
    /\ loopRunning
    /\ IF ~mounted
       THEN UNCHANGED vars
       ELSE IF ~showGiftModalSeenByLoop /\ throws(r)
       THEN /\ loopRunning' = FALSE
            /\ results' = r
            /\ UNCHANGED <<appState, interactionMode, stabVars, showGiftModal,
                           selVars, detectedGesture, itemVars, lifeVars>>
       ELSE processResults(r)

(* The Scatter, Tree, Photo and Gift buttons of the manual controls.       *)
ManualGestures == {"OPEN", "FIST", "PINCH", "POINT"}

(* A plausible slip: a path of its own for the buttons, Scatter and Tree   *)
(* setting the formation state and Photo and Gift the mode.                *)
ManualOverride_ownPath(gesture) ==
    /\ appState' = effectAppState(gesture, appState)
    /\ interactionMode' = IF gesture \in {"PINCH", "POINT"}
                          THEN effectMode(gesture) ELSE interactionMode
    /\ UNCHANGED <<stabVars, showGiftModal, selVars, pureVars, itemVars, loopRunning, lifeVars>>

(* A plausible slip: the manual control also records its label as the      *)
(* confirmed one.                                                          *)
ManualOverride_setsStable(gesture) ==
    /\ applyGestureEffect(gesture)
    /\ currentStableGesture' = gesture
    /\ UNCHANGED <<gestureHistory, emitted, runLabel, runLen, sinceEvent,
                   showGiftModal, selVars, pureVars, itemVars, loopRunning, lifeVars>>

ManualOverride(gesture) ==
    /\ applyGestureEffect(gesture)
    /\ UNCHANGED <<stabVars, showGiftModal, selVars, pureVars, itemVars, loopRunning, lifeVars>>

-----------------------------------------------------------------------------
(* Interactive items and the selection effect of InteractiveItems.         *)

Null == [type |-> "null", n |-> 0]
Gifts  == {[type |-> "gift",  n |-> i] : i \in 0..(GIFTS_COUNT - 1)}
Frames == {[type |-> "frame", n |-> i] : i \in 0..(FRAMES_COUNT - 1)}
dynamicItems == Gifts \cup Frames

(* The pools of the documented scenarios: 10 gifts, and the 15 frames.     *)
ScenarioGifts == {[type |-> "gift", n |-> i] : i \in 0..9}
ScenarioFrames == {[type |-> "frame", n |-> i] : i \in 0..14}

InHistory(history, id) == \E i \in 1..Len(history) : history[i] = id

(* A plausible slip: the cap rounded up.                                   *)
maxHistory_ceil(candidates) == Max(1, (Cardinality(candidates) + 1) \div 2)

(* Math.max(1, Math.floor(candidates.length * MAX_HISTORY_SIZE_RATIO)),    *)
(* the ratio being 0.5.                                                    *)
maxHistory(candidates) == Max(1, Cardinality(candidates) \div 2)

(* A plausible slip: the history trimmed to its cap before the filter, so  *)
(* that the oldest entry is no longer excluded.                            *)
pickRandomWithHistory_evictFirst(candidates, history) ==
    LET kept == IF Len(history) >= maxHistory(candidates) THEN Tail(history)
                ELSE history
    IN  {[id |-> selected, history |-> Append(kept, selected)] :
            selected \in {c \in candidates : ~InHistory(kept, c)}}

(* A plausible slip: the filter on the history dropped.                    *)
pickRandomWithHistory_noFilter(candidates, history) ==
    {[id |-> selected,
      history |-> LET pushed == Append(history, selected)
                  IN  IF Len(pushed) > maxHistory(candidates)
                      THEN Tail(pushed) ELSE pushed] : selected \in candidates}

(* A plausible slip: no fallback to the full list when the filter leaves   *)
(* nothing.                                                                *)
pickRandomWithHistory_noFallback(candidates, history) ==
    {[id |-> selected,
      history |-> LET pushed == Append(history, selected)
                  IN  IF Len(pushed) > maxHistory(candidates)
                      THEN Tail(pushed) ELSE pushed] :
        selected \in {c \in candidates : ~InHistory(history, c)}}

(* The outcomes of pickRandomWithHistory(candidates) on a non-empty pool:  *)
(* the identifier returned and the history it leaves, one outcome for each *)
(* value Math.random() can select.                                         *)
pickRandomWithHistory(candidates, history) ==
    LET available == {c \in candidates : ~InHistory(history, c)}
        pool == IF available = {} THEN candidates ELSE available
    IN  {[id |-> selected,
          history |-> LET pushed == Append(history, selected)
                      IN  IF Len(pushed) > maxHistory(candidates)
                          THEN Tail(pushed) ELSE pushed] : selected \in pool}

(* The last k entries of a sequence.                                       *)
LastOf(seq, k) ==
    IF Len(seq) <= k THEN seq ELSE SubSeq(seq, Len(seq) - k + 1, Len(seq))

(* const newId = pickRandomWithHistory(candidates);                        *)
(* if (newId) setActiveItemId(newId);                                      *)
(* shown, where it is kept (shown.on), records the selection: of each      *)
(* category, the identifiers selected last, as many as half its pool.      *)
select(type, candidates) ==
    \E pick \in pickRandomWithHistory(candidates, historyRef) :
        /\ activeItemId' = pick.id
        /\ historyRef' = pick.history
        /\ shown' = IF shown.on
                    THEN [shown EXCEPT ![type] =
                            LastOf(Append(@, pick.id), maxHistory(candidates))]
                    ELSE shown

(* A plausible slip: the test for an item already targeted dropped, so     *)
(* every run of the effect selects again.                                  *)
selectInto_reroll(type, candidates) == select(type, candidates)

(* A plausible slip: an item of the other category still targeted counts   *)
(* as a selection made.                                                    *)
selectInto_onlyWhenNull(type, candidates) ==
    IF activeItemId = Null /\ candidates # {}
    THEN select(type, candidates)
    ELSE UNCHANGED selVars

(* The body of the effect for one category of a pulling mode.              *)
selectInto(type, candidates) ==
    IF (activeItemId = Null \/ activeItemId.type # type) /\ candidates # {}
    THEN select(type, candidates)
    ELSE UNCHANGED selVars

(* A plausible slip: leaving a pulling mode also forgets what was shown.   *)
clearSelection_forgets ==
    /\ activeItemId' = Null
    /\ historyRef' = << >>
    /\ UNCHANGED shown

(* else { setActiveItemId(null); }                                         *)
clearSelection ==
    /\ activeItemId' = Null
    /\ UNCHANGED <<historyRef, shown>>

(* useEffect(..., [interactionMode, dynamicItems, activeItemId]): React    *)
(* runs it after a render in which one of the three changed.  On a state   *)
(* it has already run for it changes nothing, so the step is modelled as   *)
(* always possible.                                                        *)
selectionEffect ==
    /\ IF interactionMode = "PULLING_GIFT" THEN selectInto("gift", Gifts)
       ELSE IF interactionMode = "PULLING_FRAME" THEN selectInto("frame", Frames)
       ELSE clearSelection
    /\ UNCHANGED <<appState, interactionMode, stabVars, showGiftModal, pureVars,
                   itemVars, loopRunning, lifeVars>>

(* A plausible slip: the rebuilt items given fresh identifiers, so that the *)
(* targeted one is not found among them and the effect selects again.      *)
rebuildItems_freshIds ==
    /\ IF interactionMode = "PULLING_GIFT" THEN select("gift", Gifts)
       ELSE IF interactionMode = "PULLING_FRAME" THEN select("frame", Frames)
       ELSE clearSelection
    /\ UNCHANGED <<appState, interactionMode, stabVars, showGiftModal, pureVars,
                   itemVars, loopRunning, lifeVars>>

(* staticItems and dynamicItems are rebuilt (new userPhotos or             *)
(* userGiftMessages, or a change of appState): the items keep their        *)
(* identifiers gift-i and frame-i, and the effect, which depends on         *)
(* dynamicItems, runs again.                                               *)
rebuildItems == selectionEffect

(* The effect has nothing left to do in this state.                        *)
Settled ==
    CASE interactionMode = "PULLING_GIFT"  -> activeItemId # Null /\ activeItemId.type = "gift"
      [] interactionMode = "PULLING_FRAME" -> activeItemId # Null /\ activeItemId.type = "frame"
      [] OTHER -> activeItemId = Null

(* The isTargeted prop each Item is rendered with, and the items it is     *)
(* true of.                                                                *)
isTargeted(item) == item = activeItemId

targetedItems == {item \in dynamicItems : isTargeted(item)}

-----------------------------------------------------------------------------
(* The render tick of one Item (useFrame).  Positions are vectors of       *)
(* twentieths of a scene unit, so the focus distance 2.5 is 50 and the     *)
(* offsets 0.3 and 0.05 are 6 and 1.  Of the state of an Item the model    *)
(* keeps its position; its rotation, lid and note animate beside it and    *)
(* feed nothing back.                                                      *)

TARGETED_DISTANCE == 50

Origin == <<0, 0, 0>>
VAdd(a, b) == <<a[1] + b[1], a[2] + b[2], a[3] + b[3]>>
VSub(a, b) == <<a[1] - b[1], a[2] - b[2], a[3] - b[3]>>
multiplyScalar(a, k) == <<a[1] * k, a[2] * k, a[3] * k>>

(* A camera orientation, given by the images of the unit vectors +X, +Y    *)
(* and +Z under camera.quaternion.                                         *)
Identity  == [x |-> <<1, 0, 0>>,  y |-> <<0, 1, 0>>,  z |-> <<0, 0, 1>>]
PitchUp   == [x |-> <<1, 0, 0>>,  y |-> <<0, 0, 1>>,  z |-> <<0, -1, 0>>]

applyQuaternion(v, q) ==
    VAdd(VAdd(multiplyScalar(q.x, v[1]), multiplyScalar(q.y, v[2])),
         multiplyScalar(q.z, v[3]))

OriginCamera == [position |-> Origin, quaternion |-> Identity]
Cameras ==
    {OriginCamera,
     [position |-> <<0, -30, 0>>, quaternion |-> PitchUp]}

(* data.treePosition and data.scatterPosition: one sample of the random    *)
(* cone and sphere positions for each category.                            *)
treePosition(data) ==
    IF data.type = "gift" THEN <<40, -20, 20>> ELSE <<-30, 60, 20>>
scatterPosition(data) ==
    IF data.type = "gift" THEN <<-120, 80, 160>> ELSE <<100, -140, -60>>

(* up.multiplyScalar(data.type === 'gift' ? 0.3 : 0.05)                    *)
targetedOffset(data) == IF data.type = "gift" THEN 6 ELSE 1

(* Math.sin(time * 1.5 + data.phase) * 0.2, at its extremes and at zero.   *)
Breaths == {-4, 0, 4}

(* desiredPos of one tick.                                                 *)
desiredPos(data, formation, targeted, cam, breath) ==
    IF targeted
    THEN LET forward == applyQuaternion(<<0, 0, -1>>, cam.quaternion)
             up == applyQuaternion(<<0, -1, 0>>, cam.quaternion)
         IN  VAdd(VAdd(cam.position, multiplyScalar(forward, TARGETED_DISTANCE)),
                  multiplyScalar(up, targetedOffset(data)))
    ELSE VAdd(IF formation = "TREE_SHAPE" THEN treePosition(data)
              ELSE scatterPosition(data),
              <<0, breath, 0>>)

(* const speed = isTargeted ? 3.5 : 1.5, doubled to stay an integer.       *)
speedTimes2(targeted) == IF targeted THEN 7 ELSE 3

(* x * (delta * speed), delta in milliseconds, rounded towards zero.       *)
scaleByAlpha(x, deltaMs, targeted) ==
    LET n == x * deltaMs * speedTimes2(targeted)
    IN  IF n >= 0 THEN n \div 2000 ELSE -((-n) \div 2000)

(* Vector3.lerp(v, alpha): this += (v - this) * alpha, alpha not clamped.  *)
lerp(from, to, deltaMs, targeted) ==
    LET d == VSub(to, from)
    IN  VAdd(from, <<scaleByAlpha(d[1], deltaMs, targeted),
                     scaleByAlpha(d[2], deltaMs, targeted),
                     scaleByAlpha(d[3], deltaMs, targeted)>>)

(* Frame deltas: none, a regular frame, and a frame after a stall.         *)
Deltas == {0, 100, 400}

useFrame(deltaMs, breath) ==
    /\ itemData # Null
    /\ currentPos' = lerp(currentPos,
                          desiredPos(itemData, appState, isTargeted(itemData), camera, breath),
                          deltaMs, isTargeted(itemData))
    /\ UNCHANGED <<appState, interactionMode, stabVars, showGiftModal, selVars,
                   pureVars, loopRunning, lifeVars, camera, itemData>>

(* The orbit controls move the camera.                                     *)
moveCamera ==
    /\ camera' \in Cameras \ {camera}
    /\ UNCHANGED <<appState, interactionMode, stabVars, showGiftModal, selVars,
                   pureVars, loopRunning, lifeVars, itemData, currentPos>>

-----------------------------------------------------------------------------
(* Initial state: the values the components are constructed with.          *)

Init ==
    /\ appState = "TREE_SHAPE"
    /\ interactionMode = "IDLE"
    /\ gestureHistory = << >>
    /\ currentStableGesture = UNKNOWN
    /\ showGiftModal = FALSE
    /\ activeItemId = Null
    /\ historyRef = << >>
    /\ loopRunning = TRUE
    /\ mounted = TRUE
    /\ handLandmarker = "open"
    /\ sinceEvent = NotCounted
    /\ camera = OriginCamera
    /\ itemData = Null
    /\ currentPos = Origin
    /\ shown = [on |-> FALSE, gift |-> << >>, frame |-> << >>]
    /\ emitted = NoEvent
    /\ runLabel = UNKNOWN
    /\ runLen = 0
    /\ results = NoHand
    /\ detectedGesture = UNKNOWN

(* The gift-list modal: opened by triggerGiftInput, closed by Cancel or by *)
(* submitGifts.                                                            *)
triggerGiftInput ==
    /\ showGiftModal' = TRUE
    /\ UNCHANGED <<appState, interactionMode, stabVars, selVars, pureVars,
                   itemVars, loopRunning, lifeVars>>

closeGiftModal ==
    /\ showGiftModal
    /\ showGiftModal' = FALSE
    /\ UNCHANGED <<appState, interactionMode, stabVars, selVars, pureVars,
                   itemVars, loopRunning, lifeVars>>

(* The mount effect: initModel awaits the engine, stores it in             *)
(* handLandmarkerRef and calls detect(), which schedules the loop; nothing *)
(* in it looks at whether the component is still mounted.                  *)
initComplete ==
    /\ handLandmarker = "pending"
    /\ handLandmarker' = "open"
    /\ loopRunning' = TRUE
    /\ UNCHANGED <<appState, interactionMode, stabVars, showGiftModal, selVars,
                   pureVars, itemVars, mounted>>

(* The catch branch of initModel: no engine, no loop.                      *)
initFail ==
    /\ handLandmarker = "pending"
    /\ handLandmarker' = "error"
    /\ UNCHANGED <<appState, interactionMode, stabVars, showGiftModal, selVars,
                   pureVars, itemVars, loopRunning, mounted>>

(* The cleanup of the mount effect: cancels the scheduled callback if one  *)
(* was scheduled and closes the engine if handLandmarkerRef holds one.     *)
cleanup ==
    /\ mounted
    /\ mounted' = FALSE
    /\ loopRunning' = FALSE
    /\ handLandmarker' = IF handLandmarker = "open" THEN "closed" ELSE handLandmarker
    /\ UNCHANGED <<appState, interactionMode, stabVars, showGiftModal, selVars,
                   pureVars, itemVars>>

(* The hand in front of the camera holds its gesture until the window is   *)
(* unanimous, or drops back to the confirmed gesture.                      *)
SteadyHand(r) ==
    LET g == detectGesture(r)
    IN  IF gestureHistory = << >> THEN TRUE
        ELSE \/ g = gestureHistory[Len(gestureHistory)]
             \/ g = currentStableGesture
             \/ allMatch(gestureHistory, gestureHistory[Len(gestureHistory)])

(* processResults reads its argument through detectGesture alone, so the   *)
(* camera is given one detection result for each label the classifier can  *)
(* return.                                                                 *)
RawLabels == {detectGesture(r) : r \in Results}
CameraResultOf == [g \in RawLabels |-> CHOOSE r \in Results : detectGesture(r) = g]
CameraResults == {CameraResultOf[g] : g \in RawLabels}

(* Results that break the detector's contract: a hand of each label with   *)
(* one point too few, and with one point too many.                         *)
MalformedResults ==
    {[landmarks |-> <<[r.landmarks[1] EXCEPT !.points = p]>>] :
        r \in CameraResults \ {NoHand}, p \in {PINKY_TIP, PINKY_TIP + 2}}

(* The whole controller, the camera showing a steady hand.                 *)
Next ==
    \/ \E r \in CameraResults : SteadyHand(r) /\ detect(r)
    \/ \E g \in ManualGestures : ManualOverride(g)
    \/ selectionEffect
    \/ rebuildItems

Spec == Init /\ [][Next]_vars

(* Stabilizer and state machine: every frame and every manual override.    *)
NextStab ==
    \/ \E r \in CameraResults : detect(r)
    \/ \E g \in ManualGestures : ManualOverride(g)

SpecStab == Init /\ [][NextStab]_vars

TypeOK ==
    /\ appState \in AppStates
    /\ interactionMode \in InteractionModes
    /\ gestureHistory \in UNION {[1..n -> GestureLabels] : n \in 0..GESTURE_CONFIDENCE_THRESHOLD}
    /\ currentStableGesture \in GestureLabels \cup {UNKNOWN}
    /\ showGiftModal \in BOOLEAN
    /\ activeItemId \in dynamicItems \cup ScenarioGifts \cup ScenarioFrames \cup {Null}
    /\ \A i \in 1..Len(historyRef) :
          historyRef[i] \in dynamicItems \cup ScenarioGifts \cup ScenarioFrames
    /\ loopRunning \in BOOLEAN
    /\ mounted \in BOOLEAN
    /\ handLandmarker \in {"pending", "open", "closed", "error"}
    /\ sinceEvent \in {NotCounted} \cup 0..RunCap
    /\ camera \in Cameras
    /\ itemData \in dynamicItems \cup {Null}
    /\ Len(currentPos) = 3 /\ \A i \in 1..3 : currentPos[i] \in Int
    /\ shown.on \in BOOLEAN
    /\ \A i \in 1..Len(shown.gift) : shown.gift[i] \in Gifts \cup ScenarioGifts
    /\ \A i \in 1..Len(shown.frame) : shown.frame[i] \in Frames \cup ScenarioFrames
    /\ emitted \in GestureLabels \cup {NoEvent}
    /\ runLabel \in GestureLabels \cup {UNKNOWN}
    /\ runLen \in 0..RunCap
    /\ results \in Results \cup MalformedResults
    /\ detectedGesture \in GestureLabels \cup {UNKNOWN}

(* The detection loop fed by a detector that may break its contract.       *)
NextPipeline ==
    \/ \E r \in CameraResults \cup MalformedResults : detect(r)
    \/ \E g \in ManualGestures : ManualOverride(g)

SpecPipeline == Init /\ [][NextPipeline]_vars

(* The life of the component: mount, asynchronous initialisation, frames   *)
(* and manual controls while mounted, teardown.                            *)
InitLifecycle ==
    /\ appState = "TREE_SHAPE"
    /\ interactionMode = "IDLE"
    /\ gestureHistory = << >>
    /\ currentStableGesture = UNKNOWN
    /\ showGiftModal = FALSE
    /\ activeItemId = Null
    /\ historyRef = << >>
    /\ loopRunning = FALSE
    /\ mounted = TRUE
    /\ handLandmarker = "pending"
    /\ sinceEvent = NotCounted
    /\ camera = OriginCamera
    /\ itemData = Null
    /\ currentPos = Origin
    /\ shown = [on |-> FALSE, gift |-> << >>, frame |-> << >>]
    /\ emitted = NoEvent
    /\ runLabel = UNKNOWN
    /\ runLen = 0
    /\ results = NoHand
    /\ detectedGesture = UNKNOWN

NextLifecycle ==
    \/ initComplete
    \/ initFail
    \/ cleanup
    \/ \E r \in CameraResults : detect(r)
    \/ \E g \in ManualGestures : mounted /\ ManualOverride(g)

SpecLifecycle == InitLifecycle /\ [][NextLifecycle]_vars

(* The camera alone: every frame the engine can deliver, no manual         *)
(* control; the frames processed since the last event (or since the start) *)
(* are counted.                                                            *)
InitFrames ==
    /\ appState = "TREE_SHAPE"
    /\ interactionMode = "IDLE"
    /\ gestureHistory = << >>
    /\ currentStableGesture = UNKNOWN
    /\ showGiftModal = FALSE
    /\ activeItemId = Null
    /\ historyRef = << >>
    /\ loopRunning = TRUE
    /\ mounted = TRUE
    /\ handLandmarker = "open"
    /\ sinceEvent = 0
    /\ camera = OriginCamera
    /\ itemData = Null
    /\ currentPos = Origin
    /\ shown = [on |-> FALSE, gift |-> << >>, frame |-> << >>]
    /\ emitted = NoEvent
    /\ runLabel = UNKNOWN
    /\ runLen = 0
    /\ results = NoHand
    /\ detectedGesture = UNKNOWN

NextFrames == \E r \in CameraResults \cup MalformedResults : detect(r)

SpecFrames == InitFrames /\ [][NextFrames]_vars

(* The camera while the gift-list modal is opened and closed.              *)
NextModal ==
    \/ \E r \in CameraResults : detect(r)
    \/ triggerGiftInput
    \/ closeGiftModal

SpecModal == Init /\ [][NextModal]_vars

(* The stabilizer with a camera that keeps delivering frames: once a frame *)
(* without a hand can change the state, one is processed.                  *)
SpecQuiet == SpecStab /\ WF_vars(detect(NoHand))

(* The selection effect under the manual controls; React runs a pending    *)
(* effect.                                                                 *)
NextSelect ==
    \/ \E g \in ManualGestures : ManualOverride(g)
    \/ selectionEffect
    \/ rebuildItems

InitSelect ==
    /\ appState = "TREE_SHAPE"
    /\ interactionMode = "IDLE"
    /\ gestureHistory = << >>
    /\ currentStableGesture = UNKNOWN
    /\ showGiftModal = FALSE
    /\ activeItemId = Null
    /\ historyRef = << >>
    /\ loopRunning = TRUE
    /\ mounted = TRUE
    /\ handLandmarker = "open"
    /\ sinceEvent = NotCounted
    /\ camera = OriginCamera
    /\ itemData = Null
    /\ currentPos = Origin
    /\ shown = [on |-> TRUE, gift |-> << >>, frame |-> << >>]
    /\ emitted = NoEvent
    /\ runLabel = UNKNOWN
    /\ runLen = 0
    /\ results = NoHand
    /\ detectedGesture = UNKNOWN

SpecSelect == InitSelect /\ [][NextSelect]_vars /\ WF_vars(selectionEffect)

(* pickRandomWithHistory on its own, on the pools of the documented        *)
(* scenarios: 10 gifts from an empty history, and the 15 frames from a     *)
(* history of frames selected one after the other.                         *)
ScenarioPool(mode) == IF mode = "PULLING_GIFT" THEN ScenarioGifts ELSE ScenarioFrames

(* The selections of a scenario run, in order.                             *)
Selections == IF interactionMode = "PULLING_GIFT" THEN shown.gift ELSE shown.frame

(* How many selections a scenario run makes.                               *)
ScenarioLength(mode) == IF mode = "PULLING_GIFT" THEN 6 ELSE 1

InitPick ==
    /\ appState = "TREE_SHAPE"
    /\ interactionMode \in {"PULLING_GIFT", "PULLING_FRAME"}
    /\ historyRef \in
          IF interactionMode = "PULLING_GIFT" THEN {<< >>}
          ELSE {[i \in 1..k |-> [type |-> "frame", n |-> i - 1]] : k \in 0..7}
    /\ activeItemId = Null
    /\ shown = [on |-> TRUE, gift |-> << >>, frame |-> << >>]
    /\ gestureHistory = << >>
    /\ currentStableGesture = UNKNOWN
    /\ showGiftModal = FALSE
    /\ loopRunning = TRUE
    /\ mounted = TRUE
    /\ handLandmarker = "open"
    /\ sinceEvent = NotCounted
    /\ camera = OriginCamera
    /\ itemData = Null
    /\ currentPos = Origin
    /\ emitted = NoEvent
    /\ runLabel = UNKNOWN
    /\ runLen = 0
    /\ results = NoHand
    /\ detectedGesture = UNKNOWN

(* One more selection of the scenario's category.                          *)
pickNext ==
    /\ Len(Selections) < ScenarioLength(interactionMode)
    /\ \E pick \in pickRandomWithHistory(ScenarioPool(interactionMode), historyRef) :
          /\ activeItemId' = pick.id
          /\ historyRef' = pick.history
          /\ shown' = IF interactionMode = "PULLING_GIFT"
                      THEN [shown EXCEPT !.gift = Append(@, pick.id)]
                      ELSE [shown EXCEPT !.frame = Append(@, pick.id)]
    /\ UNCHANGED <<appState, interactionMode, stabVars, showGiftModal, pureVars,
                   itemVars, loopRunning, lifeVars>>

SpecPick == InitPick /\ [][pickNext]_vars

(* One Item, rendered targeted or not, in either formation.                *)
InitItem ==
    /\ appState \in AppStates
    /\ itemData \in {[type |-> "gift", n |-> 0], [type |-> "frame", n |-> 0]}
    /\ activeItemId \in {Null, itemData}
    /\ interactionMode = (IF activeItemId = Null THEN "IDLE"
                          ELSE IF itemData.type = "gift" THEN "PULLING_GIFT"
                          ELSE "PULLING_FRAME")
    /\ camera \in Cameras
    /\ currentPos = scatterPosition(itemData)
    /\ gestureHistory = << >>
    /\ currentStableGesture = UNKNOWN
    /\ showGiftModal = FALSE
    /\ historyRef = IF activeItemId = Null THEN << >> ELSE <<activeItemId>>
    /\ shown = [on |-> FALSE, gift |-> << >>, frame |-> << >>]
    /\ loopRunning = TRUE
    /\ mounted = TRUE
    /\ handLandmarker = "open"
    /\ sinceEvent = NotCounted
    /\ emitted = NoEvent
    /\ runLabel = UNKNOWN
    /\ runLen = 0
    /\ results = NoHand
    /\ detectedGesture = UNKNOWN

NextItem ==
    \/ \E deltaMs \in Deltas, breath \in Breaths : useFrame(deltaMs, breath)
    \/ moveCamera

SpecItem == InitItem /\ [][NextItem]_vars

(* The classifier alone: every detection result, classified once.          *)
InitClassify ==
    /\ appState = "TREE_SHAPE"
    /\ interactionMode = "IDLE"
    /\ gestureHistory = << >>
    /\ currentStableGesture = UNKNOWN
    /\ showGiftModal = FALSE
    /\ activeItemId = Null
    /\ historyRef = << >>
    /\ loopRunning = TRUE
    /\ mounted = TRUE
    /\ handLandmarker = "open"
    /\ sinceEvent = NotCounted
    /\ camera = OriginCamera
    /\ itemData = Null
    /\ currentPos = Origin
    /\ shown = [on |-> FALSE, gift |-> << >>, frame |-> << >>]
    /\ emitted = NoEvent
    /\ runLabel = UNKNOWN
    /\ runLen = 0
    /\ results \in Results
    /\ detectedGesture = UNKNOWN

classifyFrame ==
    /\ detectedGesture = UNKNOWN
    /\ detectedGesture' = detectGesture(results)
    /\ UNCHANGED <<appState, interactionMode, stabVars, showGiftModal, selVars, results,
                   itemVars, loopRunning, lifeVars>>

nextFrame ==
    /\ detectedGesture # UNKNOWN
    /\ results' \in Results
    /\ detectedGesture' = UNKNOWN
    /\ UNCHANGED <<appState, interactionMode, stabVars, showGiftModal, selVars,
                   itemVars, loopRunning, lifeVars>>

NextClassify == classifyFrame \/ nextFrame

SpecClassify == InitClassify /\ [][NextClassify]_vars

-----------------------------------------------------------------------------
(* Vocabulary of the properties.                                           *)

N == GESTURE_CONFIDENCE_THRESHOLD

(* A step in which processResults emits a gesture-change event carrying g. *)
CameraEvent(g) ==
    /\ emitted' = g
    /\ g \in RawLabels
    /\ detect(CameraResultOf[g])

(* A step in which one of the manual controls injects g.                   *)
ManualEvent(g) == g \in ManualGestures /\ ManualOverride(g)

(* A step that is one run of detect on a new frame.                        *)
FrameStep(r) == detect(r)

GestureEvent(g) == CameraEvent(g) \/ ManualEvent(g)

(* The transition table of the state machine, as documented.               *)
TableMode(g) ==
    IF g = "PINCH" THEN "PULLING_FRAME"
    ELSE IF g = "POINT" THEN "PULLING_GIFT"
    ELSE "IDLE"

TableFormation(g, formation) ==
    IF g = "FIST" THEN "TREE_SHAPE"
    ELSE IF g = "OPEN" THEN "SCATTERED"
    ELSE formation

Unanimous(history, g) ==
    Len(history) = N /\ \A i \in 1..Len(history) : history[i] = g

-----------------------------------------------------------------------------
(* C1: every gesture-change event, from the camera or from a manual        *)
(* control, leaves the interaction mode at the value the table gives for   *)
(* its label: PINCH PULLING_FRAME, POINT PULLING_GIFT, and FIST, OPEN,     *)
(* NEUTRAL and NONE IDLE, whatever the mode was before.                    *)
C1_ModeByTable ==
    [][\A g \in GestureLabels :
         GestureEvent(g) =>
            /\ (g = "PINCH" => interactionMode' = "PULLING_FRAME")
            /\ (g = "POINT" => interactionMode' = "PULLING_GIFT")
            /\ (g \in {"FIST", "OPEN", "NEUTRAL", "NONE"} => interactionMode' = "IDLE")]_vars

(* A NEUTRAL event has just taken the mode to IDLE in a scattered scene.   *)
C1_Witness ==
    /\ emitted = "NEUTRAL"
    /\ currentStableGesture = "NEUTRAL"
    /\ interactionMode = "IDLE"
    /\ appState = "SCATTERED"

(* C2: the formation state changes only in a FIST event, to TREE_SHAPE, or *)
(* in an OPEN event, to SCATTERED; no other event, no frame without an     *)
(* event and no run of the selection effect changes it.                    *)
C2_FormationOnlyByFistOrOpen ==
    [][appState' # appState =>
          \/ GestureEvent("FIST") /\ appState' = "TREE_SHAPE"
          \/ GestureEvent("OPEN") /\ appState' = "SCATTERED"]_vars

(* A pinch was confirmed and a frame selected in a scene that an earlier   *)
(* OPEN had scattered: neither touched the formation state.                *)
C2_Witness ==
    /\ appState = "SCATTERED"
    /\ emitted = "PINCH"
    /\ interactionMode = "PULLING_FRAME"
    /\ activeItemId \in Frames

(* C3: a call of processResults changes the confirmed label, or emits an   *)
(* event, only if the history after the push holds exactly N labels, all   *)
(* equal to the frame's raw label, and that label differs from the label   *)
(* confirmed so far; on any other frame the confirmed label stays and no   *)
(* event is emitted.                                                       *)
C3_ConfirmOnlyOnFullUnanimousWindow ==
    [][\A r \in CameraResults :
         FrameStep(r) =>
            LET raw == detectGesture(r)
                full == /\ Len(gestureHistory') = N
                        /\ \A i \in 1..Len(gestureHistory') : gestureHistory'[i] = raw
                        /\ raw # currentStableGesture
            IN  \/ full
                \/ currentStableGesture' = currentStableGesture /\ emitted' = NoEvent]_vars

(* An event has just been emitted on a full unanimous window.              *)
C3_Witness ==
    /\ emitted = "FIST"
    /\ currentStableGesture = "FIST"
    /\ Unanimous(gestureHistory, "FIST")
    /\ runLen = N

(* C4: a run of identical raw labels L emits one event, on the frame that  *)
(* makes the run N long when L is not the confirmed label, and none on an  *)
(* earlier or a later frame of the run.                                    *)
C4_OneEventOnNthFrame ==
    [][\A r \in CameraResults :
         FrameStep(r) =>
            /\ (emitted' # NoEvent) <=> (runLen' = N /\ runLabel' # currentStableGesture)
            /\ emitted' # NoEvent => emitted' = runLabel']_vars

(* The run went on after its event: the frame after the Nth emitted none.  *)
C4_Witness ==
    /\ runLen = N + 1
    /\ runLabel = "OPEN"
    /\ currentStableGesture = "OPEN"
    /\ emitted = NoEvent

(* C5: the confirmed label becomes L only on a frame that ends a run of at *)
(* least N raw labels L received since the last label other than L, so one *)
(* other label inside the window puts confirmation off.                    *)
C5_InterruptionResets ==
    [][currentStableGesture' # currentStableGesture =>
          /\ runLabel' = currentStableGesture'
          /\ runLen' >= N]_vars

(* A full window whose ends are FIST with another label in between, FIST   *)
(* not being confirmed: the frame emitted nothing.                         *)
C5_Witness ==
    /\ Len(gestureHistory) = N
    /\ gestureHistory[1] = "FIST"
    /\ gestureHistory[N] = "FIST"
    /\ runLen < N
    /\ currentStableGesture # "FIST"
    /\ emitted = NoEvent

(* C6: a frame that leaves the window unanimous in the label already       *)
(* confirmed emits no event and leaves the mode, the formation state, the  *)
(* targeted identifier and the selection history as they are; and in a     *)
(* state the selection effect has settled, a run of the effect selects     *)
(* nothing.                                                                *)
C6_ReconfirmIsIdempotent ==
    [][/\ (/\ currentStableGesture \in RawLabels
           /\ Unanimous(gestureHistory', currentStableGesture)
           /\ FrameStep(CameraResultOf[currentStableGesture])) =>
              /\ emitted' = NoEvent
              /\ UNCHANGED <<currentStableGesture, interactionMode, appState,
                             activeItemId, historyRef>>
       /\ (Settled /\ selectionEffect) => UNCHANGED <<activeItemId, historyRef>>]_vars

(* POINT was confirmed and its gift selected, the hand wavered and came    *)
(* back: the frame that makes the window unanimous in POINT again emitted  *)
(* nothing.                                                                *)
C6_Witness ==
    /\ currentStableGesture = "POINT"
    /\ Unanimous(gestureHistory, "POINT")
    /\ runLen = N
    /\ emitted = NoEvent
    /\ interactionMode = "PULLING_GIFT"
    /\ activeItemId \in Gifts
    /\ Len(historyRef) > 0

(* The classifier specification has classified a hand, or no hand.         *)
Classified == detectedGesture # UNKNOWN
HandSeen == Len(results.landmarks) > 0
Seen == features(results.landmarks[1])

C9_ManualSameAsCamera ==
    [][\A g \in GestureLabels :
         (ManualEvent(g) \/ CameraEvent(g)) =>
            /\ appState' = TableFormation(g, appState)
            /\ interactionMode' = TableMode(g)]_vars

(* The Tree button was used while POINT was the confirmed gesture: the     *)
(* override did what a confirmed FIST does.                                *)
C9_Witness ==
    /\ currentStableGesture = "POINT"
    /\ emitted = "POINT"
    /\ interactionMode = "IDLE"
    /\ appState = "TREE_SHAPE"

(* C10 as stated: at most one item is targeted, and none while the mode is *)
(* IDLE.                                                                   *)
C10_NoTargetWhileIdle ==
    /\ Cardinality(targetedItems) <= 1
    /\ interactionMode = "IDLE" => targetedItems = {}

-----------------------------------------------------------------------------
(* Vocabulary of the selection properties.                                 *)

(* The pool the effect selects from in a mode.                             *)
Candidates(mode) ==
    IF mode = "PULLING_GIFT" THEN Gifts
    ELSE IF mode = "PULLING_FRAME" THEN Frames
    ELSE {}

(* The identifiers of a mode's category selected last.                     *)
ShownOf(mode) == IF mode = "PULLING_GIFT" THEN shown.gift ELSE shown.frame

(* Every candidate of the mode's category is in the history.               *)
Saturated(mode) == \A c \in Candidates(mode) : InHistory(historyRef, c)

(* A run of the effect that selects: activeItemId' is the selection.       *)
Selecting ==
    /\ interactionMode # "IDLE"
    /\ ~Settled
    /\ selectionEffect

(* C11: a selection returns an identifier that is not in the history as it *)
(* stood when the selection started, unless every candidate of the         *)
(* category was in that history.                                           *)
C11_SelectionAvoidsHistory ==
    [][Selecting =>
          \/ ~InHistory(historyRef, activeItemId')
          \/ Saturated(interactionMode)]_vars

(* A second gift was selected while the first was still in the history.    *)
C11_Witness ==
    /\ interactionMode = "PULLING_GIFT"
    /\ activeItemId \in Gifts
    /\ Len(historyRef) = 2
    /\ historyRef[1] \in Gifts
    /\ historyRef[2] = activeItemId
    /\ historyRef[1] # activeItemId

(* C12 as stated: after a selection for a category the history is no       *)
(* longer than max(1, floor(poolSize * 0.5)) for that category's pool.     *)
C12_HistoryWithinCategoryCap ==
    [][Selecting =>
          Len(historyRef') <= maxHistory(Candidates(interactionMode))]_vars

(* C13 as stated: in a category of at least two items, a selection does    *)
(* not return an identifier that is among the last selections of that      *)
(* category, as many as half its pool.                                     *)
C13_NoRepeatWithinHalfPool ==
    [][(Selecting /\ Cardinality(Candidates(interactionMode)) >= 2) =>
          ~InHistory(ShownOf(interactionMode), activeItemId')]_vars

(* C14: when the effect has a selection to make, pickRandomWithHistory has *)
(* an outcome, every outcome is an identifier of the category's pool, and  *)
(* with every candidate in the history the outcomes are the whole pool.    *)
C14_SelectionNeverBlocks ==
    (interactionMode # "IDLE" /\ ~Settled) =>
        LET pool == Candidates(interactionMode)
            picks == {pick.id : pick \in pickRandomWithHistory(pool, historyRef)}
        IN  /\ picks # {}
            /\ picks \subseteq pool
            /\ Saturated(interactionMode) => picks = pool
            /\ ENABLED <<selectionEffect>>_vars

(* A frame was selected from the full pool: it was in the history already, *)
(* and is in it twice now.                                                 *)
C14_Witness ==
    /\ interactionMode = "PULLING_FRAME"
    /\ activeItemId \in Frames
    /\ Len(historyRef) = 2
    /\ historyRef[1] = activeItemId
    /\ historyRef[2] = activeItemId

(* C15 as stated: if from some point on every step is a frame without a    *)
(* hand, the interaction mode is eventually IDLE for good.                 *)
C15_NoHandLeadsToIdle ==
    <>[][detect(NoHand)]_vars => <>[](interactionMode = "IDLE")

(* C16 as stated: a frame whose hand has not 21 points is treated as a     *)
(* frame without a hand: processResults returns, having read no landmark   *)
(* that is not there, and the frame's raw label is NONE.                   *)
C16_MalformedTreatedAsAbsent ==
    [][\A r \in MalformedResults :
         FrameStep(r) => (loopRunning' /\ runLabel' = "NONE")]_vars

(* C17 as stated: after any frame, without a hand, with a well-formed hand *)
(* or with a malformed one, the next detect callback is scheduled.         *)
C17_LoopNeverHalts ==
    [][\A r \in CameraResults \cup MalformedResults :
         FrameStep(r) => loopRunning']_vars

C19_SameModeKeepsSelection ==
    [][(interactionMode # "IDLE" /\ Settled) =>
          /\ \A g \in GestureLabels :
                (GestureEvent(g) /\ TableMode(g) = interactionMode) =>
                    (Settled' /\ UNCHANGED <<activeItemId, historyRef>>)
          /\ (selectionEffect \/ rebuildItems) =>
                UNCHANGED <<activeItemId, historyRef>>]_vars

(* The Photo button had selected a frame; then a pinch was confirmed by    *)
(* the camera: the frame is still the target and the history holds it      *)
(* alone.                                                                  *)
C19_Witness ==
    /\ emitted = "PINCH"
    /\ currentStableGesture = "PINCH"
    /\ runLen = N
    /\ interactionMode = "PULLING_FRAME"
    /\ activeItemId \in Frames
    /\ historyRef = <<activeItemId>>

(* The target the documentation gives a targeted item: camera position +   *)
(* forward * focus distance + camera up * vertical offset, the camera's up *)
(* being the image of +Y.                                                  *)
DocumentedTarget(data, cam) ==
    VAdd(VAdd(cam.position,
              multiplyScalar(applyQuaternion(<<0, 0, -1>>, cam.quaternion),
                             TARGETED_DISTANCE)),
         multiplyScalar(applyQuaternion(<<0, 1, 0>>, cam.quaternion),
                        targetedOffset(data)))

(* C20 as stated: a tick moves a targeted gift towards camera position +   *)
(* forward * 2.5 + up * 0.3, which for the camera at the origin facing -Z  *)
(* is (0, 0.3, -2.5), here <<0, 6, -50>>.                                  *)
C20_TargetedGiftTarget ==
    [][\A deltaMs \in Deltas, breath \in Breaths :
         (itemData \in Gifts /\ isTargeted(itemData) /\ useFrame(deltaMs, breath)) =>
            /\ currentPos' = lerp(currentPos, DocumentedTarget(itemData, camera),
                                  deltaMs, TRUE)
            /\ camera = OriginCamera =>
                  currentPos' = lerp(currentPos, <<0, 6, -50>>, deltaMs, TRUE)]_vars

(* C21 as stated: once the component is torn down no frame callback is    *)
(* scheduled and the engine is not left open, whether the initialisation   *)
(* completed before the teardown or after it.                              *)
C21_TeardownStopsLoop ==
    ~mounted => (~loopRunning /\ handLandmarker # "open")

(* C22: a camera event is emitted only by a frame that is at least the     *)
(* N-th processed since the previous camera event, or since the start if   *)
(* there was none: sinceEvent counts the frames processed after that       *)
(* event (or start), the emitting frame not included.                      *)
C22_MinimumDwell ==
    [][\A g \in GestureLabels : CameraEvent(g) => sinceEvent + 1 >= N]_vars

(* OPEN was confirmed earlier (the scene is scattered); a pinch has just   *)
(* been confirmed by the N-th pinch frame in a row.                        *)
C22_Witness ==
    /\ emitted = "PINCH"
    /\ currentStableGesture = "PINCH"
    /\ appState = "SCATTERED"
    /\ sinceEvent = 0
    /\ runLen = N
    /\ Unanimous(gestureHistory, "PINCH")

(* The identifiers the next selection of the scenario can return.          *)
NextPicks ==
    {pick.id : pick \in pickRandomWithHistory(ScenarioPool(interactionMode), historyRef)}

(* The selections made so far, as a set, from the from-th on.              *)
SelectedFrom(from) == {Selections[i] : i \in from..Len(Selections)}

(* C23 as stated: 10 gifts, empty history at the start; the first 5        *)
(* selections are pairwise distinct and the 6th can repeat the 1st.        *)
C23_SixthCanRepeatFirst ==
    (interactionMode = "PULLING_GIFT" /\ Len(Selections) = 5) =>
        /\ Cardinality(SelectedFrom(1)) = 5
        /\ Selections[1] \in NextPicks

(* C23, amended: 10 gifts (capacity 5), empty history at the start; the    *)
(* first 6 selections are pairwise distinct, every selection being drawn   *)
(* from the pool less the (at most 5) most recent selections, and it is    *)
(* the 7th selection that can repeat the 1st.                              *)
C23_SeventhCanRepeatFirst ==
    interactionMode = "PULLING_GIFT" =>
        /\ Cardinality(SelectedFrom(1)) = Len(Selections)
        /\ NextPicks = ScenarioGifts \ SelectedFrom(Max(1, Len(Selections) - 4))
        /\ Len(Selections) <= 5 => Cardinality(NextPicks) = 10 - Len(Selections)
        /\ Len(Selections) = 6 =>
              (Selections[1] \in NextPicks /\ Cardinality(NextPicks) = 5)

(* Six gifts selected out of 10: the history holds the last five and the   *)
(* first one is a candidate again.                                         *)
C23_Witness ==
    /\ interactionMode = "PULLING_GIFT"
    /\ Len(Selections) = 6
    /\ historyRef = SubSeq(Selections, 2, 6)
    /\ activeItemId = Selections[6]
    /\ Selections[1] \in NextPicks

(* this + (v - this) * clamp(delta * speed, 0, 1), with the rounding of     *)
(* lerp.                                                                   *)
ClampedLerp(from, to, deltaMs, targeted) ==
    LET d == VSub(to, from)
        alpha2000 == Max(0, Min(deltaMs * speedTimes2(targeted), 2000))
        scaled(x) == IF x >= 0 THEN (x * alpha2000) \div 2000
                     ELSE -(((-x) * alpha2000) \div 2000)
    IN  VAdd(from, <<scaled(d[1]), scaled(d[2]), scaled(d[3])>>)

(* p lies between a and b, coordinate by coordinate.                       *)
Between(a, p, b) ==
    \A i \in 1..3 : Min(a[i], b[i]) <= p[i] /\ p[i] <= Max(a[i], b[i])

(* C24 as stated: a render tick advances the position by (target -         *)
(* position) * clamp(speed * delta, 0, 1), for some frame delta and phase  *)
(* of the breathing that the tick can have had, so the new position lies   *)
(* between the old one and the target.                                     *)
C24_ClampedApproach ==
    [][(\E deltaMs \in Deltas, breath \in Breaths : useFrame(deltaMs, breath)) =>
         \E deltaMs \in Deltas, breath \in Breaths :
            LET target == desiredPos(itemData, appState, isTargeted(itemData),
                                     camera, breath)
            IN  /\ useFrame(deltaMs, breath)
                /\ currentPos' = ClampedLerp(currentPos, target, deltaMs,
                                             isTargeted(itemData))
                /\ Between(currentPos, currentPos', target)]_vars

(* C25 as stated: after the push, the oldest entry leaves the history      *)
(* exactly when the length exceeds ceil(poolSize * 0.5), at least 1: 8 for *)
(* the 15 frames.                                                          *)
C25_EvictsAboveCeil ==
    [][pickNext =>
         LET poolSize == Cardinality(ScenarioPool(interactionMode))
             capacity == Max(1, (poolSize + 1) \div 2)
             pushed == Append(historyRef, activeItemId')
         IN  /\ interactionMode = "PULLING_FRAME" => capacity = 8
             /\ historyRef' = IF Len(pushed) > capacity THEN Tail(pushed)
                              ELSE pushed]_vars

(* C25, amended: after the push, the oldest entry leaves the history       *)
(* exactly when the length exceeds floor(poolSize * 0.5), at least 1: 7    *)
(* for the 15 frames, 5 for 10 gifts.                                      *)
C25_EvictsAboveFloor ==
    [][pickNext =>
         LET poolSize == Cardinality(ScenarioPool(interactionMode))
             capacity == Max(1, poolSize \div 2)
             pushed == Append(historyRef, activeItemId')
         IN  /\ interactionMode = "PULLING_FRAME" => capacity = 7
             /\ interactionMode = "PULLING_GIFT" => capacity = 5
             /\ historyRef' = IF Len(pushed) > capacity THEN Tail(pushed)
                              ELSE pushed]_vars

(* Seven frames were in the history; the eighth was selected and the       *)
(* oldest of the seven has left.                                           *)
C25_Witness ==
    /\ interactionMode = "PULLING_FRAME"
    /\ Len(Selections) = 1
    /\ activeItemId = Selections[1]
    /\ Len(historyRef) = 7
    /\ historyRef[1] = [type |-> "frame", n |-> 1]
    /\ historyRef[7] = activeItemId
(* C26: a run of the selection effect in a pulling mode leaves an item of  *)
(* the mode's category targeted; when the mode was switched directly from  *)
(* the other pulling mode, the run selects a new item, of the new          *)
(* category, and pushes it onto the history; and a state in which the      *)
(* targeted item does not match the mode is followed by one in which it    *)
(* does.                                                                   *)
C26_CategoryMatchesMode ==
    /\ [][selectionEffect =>
            /\ interactionMode = "PULLING_GIFT" => activeItemId' \in Gifts
            /\ interactionMode = "PULLING_FRAME" => activeItemId' \in Frames
            /\ (interactionMode # "IDLE" /\ activeItemId # Null) =>
                   /\ activeItemId' \in Candidates(interactionMode)
                   /\ activeItemId' # activeItemId
                   /\ historyRef' # << >>
                   /\ historyRef'[Len(historyRef')] = activeItemId']_vars
    /\ (interactionMode # "IDLE" /\ ~Settled) ~> Settled

(* Photo, then Gift with no IDLE in between: the effect has replaced the   *)
(* frame by a gift.                                                        *)
C26_Witness ==
    /\ interactionMode = "PULLING_GIFT"
    /\ activeItemId \in Gifts
    /\ Len(historyRef) = 2
    /\ historyRef[1] \in Frames
    /\ historyRef[2] = activeItemId
    /\ shown.gift = <<activeItemId>>
    /\ Len(shown.frame) = 1
(* C27 as stated: while the gift-list modal is open, a video frame changes *)
(* neither the stabilizer history, the confirmed label, the formation      *)
(* state nor the interaction mode.                                         *)
C27_ModalPausesFrames ==
    [][(showGiftModal /\ \E r \in CameraResults : FrameStep(r)) =>
          UNCHANGED <<gestureHistory, currentStableGesture, appState,
                      interactionMode>>]_vars
(* The identifiers of a pool that the next selection from it leaves out.   *)
Excluded(pool) == {c \in pool : InHistory(historyRef, c)}

(* C28 as stated: a selection of a gift leaves unchanged the set of frames *)
(* excluded from the next selection of a frame, and a selection of a frame *)
(* the set of gifts excluded from the next selection of a gift.            *)
C28_HistoriesApart ==
    [][Selecting =>
          /\ interactionMode = "PULLING_GIFT" =>
                {c \in Frames : InHistory(historyRef', c)} = Excluded(Frames)
          /\ interactionMode = "PULLING_FRAME" =>
                {c \in Gifts : InHistory(historyRef', c)} = Excluded(Gifts)]_vars
(* C29: in the states reached by video frames alone, a confirmed label     *)
(* other than the UNKNOWN sentinel comes with the interaction mode the     *)
(* table gives for it, and once the confirmed label has left UNKNOWN it    *)
(* does not return to it.                                                  *)
C29_ModeFollowsConfirmed ==
    [][/\ currentStableGesture' # UNKNOWN =>
              interactionMode' = TableMode(currentStableGesture')
       /\ currentStableGesture # UNKNOWN => currentStableGesture' # UNKNOWN]_vars

(* An open hand was confirmed earlier (the scene is scattered); a hand in  *)
(* no particular pose has just been confirmed and the mode is IDLE.        *)
C29_Witness ==
    /\ currentStableGesture = "NEUTRAL"
    /\ emitted = "NEUTRAL"
    /\ interactionMode = "IDLE"
    /\ appState = "SCATTERED"
    /\ sinceEvent = 0

(* C30: a manual override changes nothing but the formation state and the  *)
(* interaction mode, the history buffer and the confirmed label of the     *)
(* stabilizer in particular; so a frame whose label is the confirmed one   *)
(* emits no event, whatever the overrides have made of the mode.           *)
C30_OverrideBypassesStabilizer ==
    [][/\ \A g \in GestureLabels :
            ManualEvent(g) =>
                UNCHANGED <<gestureHistory, currentStableGesture, emitted,
                            showGiftModal, selVars, itemVars>>
       /\ \A g \in RawLabels :
            (FrameStep(CameraResultOf[g]) /\ g = currentStableGesture) =>
                /\ emitted' = NoEvent
                /\ UNCHANGED <<currentStableGesture, appState, interactionMode>>]_vars

(* A pinch was confirmed, the Gift button pressed, and the hand still      *)
(* pinches: no event, the mode stays PULLING_GIFT.                         *)
C30_Witness ==
    /\ currentStableGesture = "PINCH"
    /\ Unanimous(gestureHistory, "PINCH")
    /\ runLen = N + 1
    /\ emitted = NoEvent
    /\ interactionMode = "PULLING_GIFT"

====
